---- MODULE Spec2Model ----
(***************************************************************************)
(* A model of juju's network-space life cycle (state/spaces.go) running    *)
(* against the transactional document store, and of the lease clock-skew   *)
(* arithmetic (state/lease/skew.go).                                       *)
(*                                                                         *)
(* Several actors share one store.  Each store access of an operation      *)
(* (one runTransaction, one FindId) is one atomic step; the steps of       *)
(* different actors interleave freely.                                     *)
(***************************************************************************)
EXTENDS Integers, Sequences, FiniteSets, TLC

\* ------------------------------------------------------------------ bounds

NumActors == 2      \* concurrent callers
MaxCalls  == 5      \* operations started in one behaviour, over all actors
MaxDuration == 12   \* the largest time.Duration, in the model's unit of time
MaxLocal  == 2      \* the local clock reads 0 .. MaxLocal while a sample is taken
MaxOffset == 1      \* the remote clock is at most this far from the local one
MaxRemote == 15     \* remote timestamps handed to Earliest and Latest reach this far

Actors == 1 .. NumActors

\* ------------------------------------------------------- the value domains

ValidNames  == {"sp1", "sp2"}
InvalidName == "Bad_Name"
Names       == ValidNames \cup {InvalidName}
ProviderIds == {"", "pid1"}
SubnetIds   == {"net1"}
IsPublicChoices == {TRUE}

\* names.IsValidSpace: the names the regular expression accepts.
IsValidSpace(name) == name \in ValidNames

\* The argument lists of AddSpace: sequences of distinct subnet ids.
SubnetLists ==
    {<<>>} \cup {<<s>> : s \in SubnetIds}
           \cup {l \in {<<s, t>> : s \in SubnetIds, t \in SubnetIds} : l[1] # l[2]}

\* Life, in the order of its declaration.
Alive == "Alive"
Dying == "Dying"
Dead  == "Dead"

LifeRank(l) == CASE l = Alive -> 0 [] l = Dying -> 1 [] l = Dead -> 2

\* The collections.
spacesC      == "spaces"
subnetsC     == "subnets"
providerIDsC == "providerIDs"

\* ------------------------------------------------------------------- state

VARIABLES
    spaces,        \* the spaces collection: id -> spaceDoc
    subnets,       \* the subnets collection: id -> subnetDoc
    providerIDs,   \* the provider-id index: key -> providerIdDoc
    handle,        \* actor -> the spaceDoc cached in the *Space it holds
    pc,            \* actor -> where it stands in AddSpace
    call,          \* actor -> what its AddSpace in progress still needs of its arguments
    failed,        \* actor -> the assertions that failed in its AddSpace transaction
    fault,         \* actor -> whether a store access of its AddSpace hit a store error
    last,          \* the operation that returned last: whose, which, on which space, its error
    okCount,       \* name -> how many AddSpace calls returned a space for it, until it is touched
    touched,       \* name -> whether an EnsureDead or Remove transaction was applied to it
    nCalls,        \* operations started so far
    storeFaults,   \* whether the store may answer with an error of its own
    skew,          \* the Skew record under study
    offset,        \* remote clock minus local clock, when the record is a sample
    sampled,       \* whether the record came from bracketing a read of the remote clock
    remote,        \* the remote timestamp last handed to Earliest and Latest
    earliest,      \* what Earliest returned for it
    latest,        \* what Latest returned for it
    queried,       \* whether Earliest and Latest have been called on the record
    destroyModels, \* destroyCommand.destroyModels, the flag --destroy-all-models
    runAt,         \* where destroyCommand.Run stands
    hasHostedModels, \* Run's local of that name
    modelsStatus,  \* Run's local of that name: hosted model -> life, as last polled
    runErr,        \* what Run returned
    hosted,        \* the controller's hosted models: model -> life
    accepted,      \* whether an api.DestroyController of this Run returned nil
    destroyed,     \* calls of environs.Destroy by this Run
    waited         \* whether the waiting loop of this Run has polled

storeVars == <<spaces, subnets, providerIDs>>
actorVars == <<handle, pc, call, failed, fault, last>>
ghostVars == <<okCount, touched, nCalls, storeFaults>>
skewVars  == <<skew, offset, sampled, remote, earliest, latest, queried>>
destroyVars == <<destroyModels, runAt, hasHostedModels, modelsStatus, runErr,
                 hosted, accepted, destroyed, waited>>
vars      == <<spaces, subnets, providerIDs, handle, pc, call, failed, fault,
               last, okCount, touched, nCalls, storeFaults,
               skew, offset, sampled, remote, earliest, latest, queried,
               destroyModels, runAt, hasHostedModels, modelsStatus, runErr,
               hosted, accepted, destroyed, waited>>

\* --------------------------------------------------------------- documents

\* spaceDoc: DocID and Name are the key under which the document is stored.
SpaceDoc(name, life, providerId, isPublic) ==
    [name |-> name, life |-> life, providerId |-> providerId, isPublic |-> isPublic]

SubnetDoc(spaceName) == [spaceName |-> spaceName]

ProviderIdDoc(key) == [id |-> key]

\* State.networkEntityGlobalKey
networkEntityGlobalKey(globalKey, providerId) == <<globalKey, providerId>>

\* ------------------------------------------------------- the store boundary

DB == [spaces |-> spaces, subnets |-> subnets, providerIDs |-> providerIDs]

Has(db, c, id) == id \in DOMAIN db[c]

\* One txn.Op.
Op(c, id, assert, kind, val) ==
    [c |-> c, id |-> id, assert |-> assert, kind |-> kind, val |-> val]

\* Whether the assertion of an operation holds of the store.
AssertHolds(db, op) ==
    CASE op.assert = "DocMissing" -> ~Has(db, op.c, op.id)
      [] op.assert = "DocExists"  -> Has(db, op.c, op.id)
      [] op.assert = "isAliveDoc" -> Has(db, op.c, op.id) /\ db[op.c][op.id].life = Alive
      [] op.assert = "isDeadDoc"  -> Has(db, op.c, op.id) /\ db[op.c][op.id].life = Dead
      [] op.assert = "none"       -> TRUE

\* The store after one operation's mutation.
ApplyOp(db, op) ==
    LET coll == db[op.c]
        new  ==
          CASE op.kind = "insert" ->
                 IF op.id \in DOMAIN coll THEN coll
                 ELSE [i \in DOMAIN coll \cup {op.id} |->
                          IF i = op.id THEN op.val ELSE coll[i]]
            [] op.kind = "setLife" ->
                 IF op.id \in DOMAIN coll
                 THEN [coll EXCEPT ![op.id].life = op.val] ELSE coll
            [] op.kind = "setSpaceName" ->
                 IF op.id \in DOMAIN coll
                 THEN [coll EXCEPT ![op.id].spaceName = op.val] ELSE coll
            [] op.kind = "remove" ->
                 [i \in DOMAIN coll \ {op.id} |-> coll[i]]
    IN  [db EXCEPT ![op.c] = new]

RECURSIVE ApplyAll(_, _)
ApplyAll(db, ops) ==
    IF ops = <<>> THEN db ELSE ApplyAll(ApplyOp(db, Head(ops)), Tail(ops))

AllAssertsHold(db, ops) == \A i \in 1 .. Len(ops) : AssertHolds(db, ops[i])

\* runTransaction: every operation applies, or none does.  The outcomes are
\* nil, txn.ErrAborted and any other store error (which applies nothing).
TxnOutcomes(db, ops) ==
    { IF AllAssertsHold(db, ops) THEN "nil" ELSE "ErrAborted" }
    \cup (IF storeFaults THEN {"storeError"} ELSE {})

TxnDB(db, ops, outcome) ==
    IF outcome = "nil" THEN ApplyAll(db, ops) ELSE db

\* FindId(id).One(&doc): nil, mgo.ErrNotFound, or another store error.
FindOutcomes(db, c, id) ==
    { IF Has(db, c, id) THEN "nil" ELSE "ErrNotFound" }
    \cup (IF storeFaults THEN {"storeError"} ELSE {})

\* State.networkEntityGlobalKeyOp: insert the key, asserting it is not there.
networkEntityGlobalKeyOp(globalKey, providerId) ==
    Op(providerIDsC, networkEntityGlobalKey(globalKey, providerId), "DocMissing",
       "insert", ProviderIdDoc(networkEntityGlobalKey(globalKey, providerId)))

\* State.networkEntityGlobalKeyRemoveOp: remove the key, asserting nothing.
networkEntityGlobalKeyRemoveOp(globalKey, providerId) ==
    Op(providerIDsC, networkEntityGlobalKey(globalKey, providerId), "none",
       "remove", ProviderIdDoc(networkEntityGlobalKey(globalKey, providerId)))

\* onAbort: the given error for txn.ErrAborted, the store's error otherwise.
onAbort(txnErr, err) == IF txnErr = "ErrAborted" THEN err ELSE txnErr

\* ----------------------------------------------------------------- Subnets

\* Space.Subnets: the subnets of the collection whose space-name is the name.
Subnets(coll, name) == {id \in DOMAIN coll : coll[id].spaceName = name}

\* ---------------------------------------------------------------- AddSpace

\* newSpace and the subnets argument, as far as the re-reads use them.
Call(name, providerId, subs, idx) ==
    [name |-> name, providerId |-> providerId, subnets |-> subs, idx |-> idx]

NoCall == Call("", "", <<>>, 0)

\* What an operation returned: err is "nil" or the error; arg is the subnet or
\* provider id the error names, or, for EnsureDead, whether the answer came
\* from the cached life or from an applied transaction; assertsFailed and
\* storeFault record what its store accesses met.
Result(a, op, name, err, arg, assertsFailed, storeFault) ==
    [actor |-> a, op |-> op, name |-> name, err |-> err, arg |-> arg,
     failed |-> assertsFailed, fault |-> storeFault]

NoResult == Result(0, "none", "", "nil", "", {}, FALSE)

\* AddSpace without the assertion that the space is missing.
AddSpaceOpsNoDocMissing(name, providerId, subs, isPublic) ==
    <<Op(spacesC, name, "none", "insert", SpaceDoc(name, Alive, providerId, isPublic))>>
    \o (IF providerId # "" THEN <<networkEntityGlobalKeyOp("space", providerId)>> ELSE <<>>)
    \o [i \in 1 .. Len(subs) |-> Op(subnetsC, subs[i], "DocExists", "setSpaceName", name)]

\* AddSpace as an upsert: it writes the new space over one that is there.
AddSpaceOpsUpsert(name, providerId, subs, isPublic) ==
    <<Op(spacesC, name, "none", "insert", SpaceDoc(name, Alive, providerId, isPublic)),
      Op(spacesC, name, "none", "setLife", Alive)>>
    \o (IF providerId # "" THEN <<networkEntityGlobalKeyOp("space", providerId)>> ELSE <<>>)
    \o [i \in 1 .. Len(subs) |-> Op(subnetsC, subs[i], "DocExists", "setSpaceName", name)]

\* AddSpace asserting that each subnet exists but leaving it where it is.
AddSpaceOpsKeepsSubnets(name, providerId, subs, isPublic) ==
    <<Op(spacesC, name, "DocMissing", "insert", SpaceDoc(name, Alive, providerId, isPublic))>>
    \o (IF providerId # "" THEN <<networkEntityGlobalKeyOp("space", providerId)>> ELSE <<>>)
    \o [i \in 1 .. Len(subs) |-> Op(subnetsC, subs[i], "DocExists", "insert", SubnetDoc(name))]

\* AddSpace without the assertion that each subnet exists.
AddSpaceOpsNoSubnetAssert(name, providerId, subs, isPublic) ==
    <<Op(spacesC, name, "DocMissing", "insert", SpaceDoc(name, Alive, providerId, isPublic))>>
    \o (IF providerId # "" THEN <<networkEntityGlobalKeyOp("space", providerId)>> ELSE <<>>)
    \o [i \in 1 .. Len(subs) |-> Op(subnetsC, subs[i], "none", "setSpaceName", name)]

\* AddSpace recording a provider-id key for the empty provider id too.
AddSpaceOpsAlwaysKey(name, providerId, subs, isPublic) ==
    <<Op(spacesC, name, "DocMissing", "insert", SpaceDoc(name, Alive, providerId, isPublic))>>
    \o <<networkEntityGlobalKeyOp("space", providerId)>>
    \o [i \in 1 .. Len(subs) |-> Op(subnetsC, subs[i], "DocExists", "setSpaceName", name)]

\* The operations of the AddSpace transaction, in the order they are built.
AddSpaceOps(name, providerId, subs, isPublic) ==
    <<Op(spacesC, name, "DocMissing", "insert", SpaceDoc(name, Alive, providerId, isPublic))>>
    \o (IF providerId # "" THEN <<networkEntityGlobalKeyOp("space", providerId)>> ELSE <<>>)
    \o [i \in 1 .. Len(subs) |-> Op(subnetsC, subs[i], "DocExists", "setSpaceName", name)]

\* Which kinds of assertion of the AddSpace transaction fail in store db.
FailedAsserts(db, ops) ==
    {ops[i].c : i \in {j \in 1 .. Len(ops) : ~AssertHolds(db, ops[j])}}

\* The subnets re-checked first.
AfterAbortSubnetsFirst == "checkSubnets"

\* The order of the re-reads that classify an aborted AddSpace transaction.
AfterAbort == "checkSpace"

AfterCheckSpace == "checkSubnets"

AfterCheckSubnets == "refresh"

\* A loop over no subnet reads nothing: control passes it by.
SkipEmpty(nextPc, subs) ==
    IF nextPc = "checkSubnets" /\ subs = <<>> THEN AfterCheckSubnets ELSE nextPc

\* The actor's operation returns.
Return(a, op, name, err, arg, assertsFailed, storeFault) ==
    /\ pc' = [pc EXCEPT ![a] = "idle"]
    /\ call' = [call EXCEPT ![a] = NoCall]
    /\ failed' = [failed EXCEPT ![a] = {}]
    /\ fault' = [fault EXCEPT ![a] = FALSE]
    /\ last' = Result(a, op, name, err, arg, assertsFailed, storeFault)

\* One more re-read of the AddSpace in progress.
Continue(a, nextPc, nextIdx, storeFault) ==
    /\ pc' = [pc EXCEPT ![a] = nextPc]
    /\ call' = [call EXCEPT ![a].idx = nextIdx]
    /\ fault' = [fault EXCEPT ![a] = @ \/ storeFault]
    /\ UNCHANGED <<failed, last>>

\* AddSpace up to and including its transaction.
AddSpace(a, name, providerId, subs, isPublic) ==
    /\ pc[a] = "idle"
    /\ nCalls < MaxCalls
    /\ nCalls' = nCalls + 1
    /\ UNCHANGED <<touched, storeFaults, skewVars, destroyVars>>
    /\ IF ~IsValidSpace(name)
       THEN /\ Return(a, "AddSpace", name, "NotValid", "", {}, FALSE)
            /\ UNCHANGED <<storeVars, handle, okCount>>
       ELSE LET ops == AddSpaceOps(name, providerId, subs, isPublic) IN
            \E err \in TxnOutcomes(DB, ops) :
              LET db == TxnDB(DB, ops, err) IN
              /\ spaces' = db[spacesC]
              /\ subnets' = db[subnetsC]
              /\ providerIDs' = db[providerIDsC]
              /\ CASE err = "nil" ->
                        /\ Return(a, "AddSpace", name, "nil", "", {}, FALSE)
                        /\ handle' = [b \in DOMAIN handle \cup {a} |->
                                        IF b = a THEN SpaceDoc(name, Alive, providerId, isPublic)
                                        ELSE handle[b]]
                        /\ okCount' = [okCount EXCEPT ![name] = IF touched[name] THEN @ ELSE @ + 1]
                   [] err = "ErrAborted" ->
                        /\ pc' = [pc EXCEPT ![a] = SkipEmpty(AfterAbort, subs)]
                        /\ call' = [call EXCEPT ![a] = Call(name, providerId, subs, 1)]
                        /\ failed' = [failed EXCEPT ![a] = FailedAsserts(DB, ops)]
                        /\ UNCHANGED <<fault, last, handle, okCount>>
                   [] err = "storeError" ->
                        /\ Return(a, "AddSpace", name, "storeError", "", {}, TRUE)
                        /\ UNCHANGED <<handle, okCount>>

\* The first re-read after an abort: st.Space(name).
AddSpaceCheckSpace(a) ==
    /\ pc[a] = "checkSpace"
    /\ \E err \in FindOutcomes(DB, spacesC, call[a].name) :
         IF err = "nil"
         THEN Return(a, "AddSpace", call[a].name, "AlreadyExists", "", failed[a], fault[a])
         ELSE Continue(a, SkipEmpty(AfterCheckSpace, call[a].subnets), 1, err = "storeError")
    /\ UNCHANGED <<storeVars, handle, ghostVars, skewVars, destroyVars>>

\* The loop of re-reads going through the subnets from the last to the first.
AddSpaceCheckSubnetsBackwards(a) ==
    /\ pc[a] = "checkSubnets"
    /\ LET subnetId == call[a].subnets[Len(call[a].subnets) + 1 - call[a].idx] IN
       \E err \in FindOutcomes(DB, subnetsC, subnetId) :
         IF err = "ErrNotFound"
         THEN Return(a, "AddSpace", call[a].name, "SubnetNotFound",
                     subnetId, failed[a], fault[a])
         ELSE IF call[a].idx < Len(call[a].subnets)
              THEN Continue(a, "checkSubnets", call[a].idx + 1, err = "storeError")
              ELSE Continue(a, AfterCheckSubnets, 1, err = "storeError")
    /\ UNCHANGED <<storeVars, handle, ghostVars, skewVars, destroyVars>>

\* The loop of re-reads st.Subnet(subnetId), one read a step.
AddSpaceCheckSubnets(a) ==
    /\ pc[a] = "checkSubnets"
    /\ \E err \in FindOutcomes(DB, subnetsC, call[a].subnets[call[a].idx]) :
         IF err = "ErrNotFound"
         THEN Return(a, "AddSpace", call[a].name, "SubnetNotFound",
                     call[a].subnets[call[a].idx], failed[a], fault[a])
         ELSE IF call[a].idx < Len(call[a].subnets)
              THEN Continue(a, "checkSubnets", call[a].idx + 1, err = "storeError")
              ELSE Continue(a, AfterCheckSubnets, 1, err = "storeError")
    /\ UNCHANGED <<storeVars, handle, ghostVars, skewVars, destroyVars>>

\* The last re-read: newSpace.Refresh().
AddSpaceRefresh(a) ==
    /\ pc[a] = "refresh"
    /\ \E err \in FindOutcomes(DB, spacesC, call[a].name) :
         Return(a, "AddSpace", call[a].name,
                CASE err = "ErrNotFound" -> "ProviderIdNotUnique"
                  [] err = "storeError"  -> "cannotRefresh"
                  [] err = "nil"         -> "ErrAborted",
                call[a].providerId, failed[a], fault[a] \/ err = "storeError")
    /\ UNCHANGED <<storeVars, handle, ghostVars, skewVars, destroyVars>>

\* ------------------------------------------------------------- State.Space

\* st.Space(name): the actor takes a handle on the stored document.
GetSpace(a, name) ==
    /\ pc[a] = "idle"
    /\ nCalls < MaxCalls
    /\ nCalls' = nCalls + 1
    /\ \E err \in FindOutcomes(DB, spacesC, name) :
         /\ Return(a, "Space", name,
                   CASE err = "nil"         -> "nil"
                     [] err = "ErrNotFound" -> "NotFound"
                     [] err = "storeError"  -> "cannotGet",
                   "", {}, err = "storeError")
         /\ handle' = IF err = "nil"
                      THEN [b \in DOMAIN handle \cup {a} |->
                              IF b = a THEN spaces[name] ELSE handle[b]]
                      ELSE handle
    /\ UNCHANGED <<storeVars, okCount, touched, storeFaults, skewVars, destroyVars>>

\* -------------------------------------------------------------- EnsureDead

\* EnsureDead going to the store whatever the cached life.
AlreadyDeadNever(doc) == FALSE

\* The cached life lets EnsureDead return without a transaction.
AlreadyDead(doc) == doc.life = Dead

\* EnsureDead as an upsert: it writes a Dead document where none is.
EnsureDeadOpsUpsert(doc) ==
    <<Op(spacesC, doc.name, "none", "insert", [doc EXCEPT !.life = Dead]),
      Op(spacesC, doc.name, "none", "setLife", Dead)>>

\* EnsureDead giving up the provider id of the space as it dies.
EnsureDeadOpsDropsKey(doc) ==
    <<Op(spacesC, doc.name, "isAliveDoc", "setLife", Dead)>>
    \o (IF doc.providerId # ""
        THEN <<networkEntityGlobalKeyRemoveOp("space", doc.providerId)>> ELSE <<>>)

EnsureDeadOps(doc) == <<Op(spacesC, doc.name, "isAliveDoc", "setLife", Dead)>>

\* EnsureDead setting s.doc.Life whatever the transaction answered.
EnsureDeadEager(a) ==
    /\ pc[a] = "idle"
    /\ a \in DOMAIN handle
    /\ nCalls < MaxCalls
    /\ nCalls' = nCalls + 1
    /\ UNCHANGED <<okCount, storeFaults, skewVars, destroyVars>>
    /\ IF AlreadyDead(handle[a])
       THEN /\ Return(a, "EnsureDead", handle[a].name, "nil", "cached", {}, FALSE)
            /\ UNCHANGED <<storeVars, handle, touched>>
       ELSE LET ops == EnsureDeadOps(handle[a]) IN
            \E txnErr \in TxnOutcomes(DB, ops) :
              LET db == TxnDB(DB, ops, txnErr) IN
              /\ spaces' = db[spacesC]
              /\ subnets' = db[subnetsC]
              /\ providerIDs' = db[providerIDsC]
              /\ handle' = [handle EXCEPT ![a].life = Dead]
              /\ IF txnErr = "nil"
                 THEN /\ touched' = [touched EXCEPT ![handle[a].name] = TRUE]
                      /\ Return(a, "EnsureDead", handle[a].name, "nil", "applied", {}, FALSE)
                 ELSE /\ Return(a, "EnsureDead", handle[a].name,
                                onAbort(txnErr, "errNotAlive"), "",
                                IF txnErr = "ErrAborted" THEN FailedAsserts(DB, ops) ELSE {},
                                txnErr = "storeError")
                      /\ UNCHANGED touched

EnsureDead(a) ==
    /\ pc[a] = "idle"
    /\ a \in DOMAIN handle
    /\ nCalls < MaxCalls
    /\ nCalls' = nCalls + 1
    /\ UNCHANGED <<okCount, storeFaults, skewVars, destroyVars>>
    /\ IF AlreadyDead(handle[a])
       THEN /\ Return(a, "EnsureDead", handle[a].name, "nil", "cached", {}, FALSE)
            /\ UNCHANGED <<storeVars, handle, touched>>
       ELSE LET ops == EnsureDeadOps(handle[a]) IN
            \E txnErr \in TxnOutcomes(DB, ops) :
              LET db == TxnDB(DB, ops, txnErr) IN
              /\ spaces' = db[spacesC]
              /\ subnets' = db[subnetsC]
              /\ providerIDs' = db[providerIDsC]
              /\ IF txnErr = "nil"
                 THEN /\ handle' = [handle EXCEPT ![a].life = Dead]
                      /\ touched' = [touched EXCEPT ![handle[a].name] = TRUE]
                      /\ Return(a, "EnsureDead", handle[a].name, "nil", "applied", {}, FALSE)
                 ELSE /\ Return(a, "EnsureDead", handle[a].name,
                                onAbort(txnErr, "errNotAlive"), "",
                                IF txnErr = "ErrAborted" THEN FailedAsserts(DB, ops) ELSE {},
                                txnErr = "storeError")
                      /\ UNCHANGED <<handle, touched>>

\* ------------------------------------------------------------------ Remove

\* The cached life makes Remove return without a transaction.
NotDead(doc) == doc.life # Dead

\* Remove without the assertion that the stored space is Dead.
RemoveOpsUnasserted(doc) ==
    <<Op(spacesC, doc.name, "none", "remove", doc)>>
    \o (IF doc.providerId # ""
        THEN <<networkEntityGlobalKeyRemoveOp("space", doc.providerId)>> ELSE <<>>)

RemoveOps(doc) ==
    <<Op(spacesC, doc.name, "isDeadDoc", "remove", doc)>>
    \o (IF doc.providerId # ""
        THEN <<networkEntityGlobalKeyRemoveOp("space", doc.providerId)>> ELSE <<>>)

Remove(a) ==
    /\ pc[a] = "idle"
    /\ a \in DOMAIN handle
    /\ nCalls < MaxCalls
    /\ nCalls' = nCalls + 1
    /\ UNCHANGED <<handle, okCount, storeFaults, skewVars, destroyVars>>
    /\ IF NotDead(handle[a])
       THEN /\ Return(a, "Remove", handle[a].name, "spaceIsNotDead", "", {}, FALSE)
            /\ UNCHANGED <<storeVars, touched>>
       ELSE LET ops == RemoveOps(handle[a]) IN
            \E txnErr \in TxnOutcomes(DB, ops) :
              LET db == TxnDB(DB, ops, txnErr) IN
              /\ spaces' = db[spacesC]
              /\ subnets' = db[subnetsC]
              /\ providerIDs' = db[providerIDsC]
              /\ touched' = [touched EXCEPT ![handle[a].name] = @ \/ txnErr = "nil"]
              /\ Return(a, "Remove", handle[a].name,
                        IF txnErr = "nil" THEN "nil"
                        ELSE onAbort(txnErr, "notFoundOrNotDead"), "",
                        IF txnErr = "ErrAborted" THEN FailedAsserts(DB, ops) ELSE {},
                        txnErr = "storeError")

\* ----------------------------------------------------------------- Refresh

\* Refresh without the assignment s.doc = doc.
RefreshKeepsCache(a) ==
    /\ pc[a] = "idle"
    /\ a \in DOMAIN handle
    /\ nCalls < MaxCalls
    /\ nCalls' = nCalls + 1
    /\ \E err \in FindOutcomes(DB, spacesC, handle[a].name) :
         Return(a, "Refresh", handle[a].name,
                CASE err = "nil"         -> "nil"
                  [] err = "ErrNotFound" -> "NotFound"
                  [] err = "storeError"  -> "cannotRefresh",
                "", {}, err = "storeError")
    /\ UNCHANGED <<storeVars, handle, okCount, touched, storeFaults, skewVars, destroyVars>>

Refresh(a) ==
    /\ pc[a] = "idle"
    /\ a \in DOMAIN handle
    /\ nCalls < MaxCalls
    /\ nCalls' = nCalls + 1
    /\ \E err \in FindOutcomes(DB, spacesC, handle[a].name) :
         /\ Return(a, "Refresh", handle[a].name,
                   CASE err = "nil"         -> "nil"
                     [] err = "ErrNotFound" -> "NotFound"
                     [] err = "storeError"  -> "cannotRefresh",
                   "", {}, err = "storeError")
         /\ handle' = IF err = "nil"
                      THEN [handle EXCEPT ![a] = spaces[handle[a].name]]
                      ELSE handle
    /\ UNCHANGED <<storeVars, okCount, touched, storeFaults, skewVars, destroyVars>>

\* ------------------------------------------------------------- environment

\* Another part of the state package adds a subnet, in no space yet.
AddSubnet(s) ==
    /\ s \notin DOMAIN subnets
    /\ subnets' = [i \in DOMAIN subnets \cup {s} |->
                     IF i = s THEN SubnetDoc("") ELSE subnets[i]]
    /\ UNCHANGED <<spaces, providerIDs, actorVars, ghostVars, skewVars, destroyVars>>

\* ------------------------------------------------------------ lease skew

\* Instants are integers; the zero time.Time is 0.
ZeroTime == 0

MinDuration == -MaxDuration - 1

LocalTimes  == 0 .. MaxLocal
Offsets     == -MaxOffset .. MaxOffset
RemoteTimes == -MaxRemote .. MaxRemote

\* The Skew struct.
Skew(lastWrite, readAfter, readBefore) ==
    [LastWrite |-> lastWrite, ReadAfter |-> readAfter, ReadBefore |-> readBefore]

\* time.Time.IsZero
IsZero(t) == t = ZeroTime

\* time.Time.Sub: the difference, or the nearest Duration when it does not fit.
Sub(t, u) ==
    LET d == t - u
    IN  IF d > MaxDuration THEN MaxDuration
        ELSE IF d < MinDuration THEN MinDuration
        ELSE d

\* time.Time.Add
Add(t, d) == t + d

isZero(s) == IsZero(s.LastWrite) /\ IsZero(s.ReadAfter) /\ IsZero(s.ReadBefore)

Earliest(s, r) ==
    IF isZero(s) THEN r
    ELSE LET delta == Sub(r, s.LastWrite) IN Add(s.ReadAfter, delta)

Latest(s, r) ==
    IF isZero(s) THEN r
    ELSE LET delta == Sub(r, s.LastWrite) IN Add(s.ReadBefore, delta)

\* The tracker of a remote writer reads the remote clock at the local instant
\* t, having noted the local time ra before and rb after, and replaces its
\* record; the remote clock runs off ahead of the local one.
Sample(ra, t, rb, off) ==
    /\ ra <= t /\ t <= rb
    /\ skew' = Skew(t + off, ra, rb)
    /\ offset' = off
    /\ sampled' = TRUE
    /\ queried' = FALSE
    /\ UNCHANGED <<remote, earliest, latest>>
    /\ UNCHANGED <<storeVars, actorVars, ghostVars, destroyVars>>

\* A caller builds a record of its own, the zero record among them.
SetRecord(lw, ra, rb) ==
    /\ skew' = Skew(lw, ra, rb)
    /\ offset' = 0
    /\ sampled' = FALSE
    /\ queried' = FALSE
    /\ UNCHANGED <<remote, earliest, latest>>
    /\ UNCHANGED <<storeVars, actorVars, ghostVars, destroyVars>>

\* The lease logic asks for the bounds of a remote timestamp.
Query(r) ==
    /\ remote' = r
    /\ earliest' = Earliest(skew, r)
    /\ latest' = Latest(skew, r)
    /\ queried' = TRUE
    /\ UNCHANGED <<skew, offset, sampled>>
    /\ UNCHANGED <<storeVars, actorVars, ghostVars, destroyVars>>

\* ------------------------------------------------------ destroy-controller

HostedModels == {"m1", "m2"}

\* What api.DestroyController answers: nil or an error, by its code.
DestroyControllerErrors == {"nil", "hasHostedModels", "operationBlocked", "other"}

IsCodeHasHostedModels(err) == err = "hasHostedModels"

IsCodeOperationBlocked(err) == err = "operationBlocked"

\* ensureUserFriendlyErrorLog: what Run returns for a DestroyController error.
ensureUserFriendlyErrorLog(destroyErr) ==
    IF destroyErr = "nil" THEN "nil"
    ELSE IF IsCodeOperationBlocked(destroyErr) THEN "ErrSilent"
    ELSE destroyErr

hasUnDeadModels(models) == \E m \in DOMAIN models : models[m] # Dead

hasAliveModels(models) == \E m \in DOMAIN models : models[m] = Alive

checkNoAliveHostedModels(models) ==
    IF ~hasAliveModels(models) THEN "nil" ELSE "live hosted models"

\* updateStatus: the lives of the hosted models as the controller has them, or
\* no model at all when the status could not be had.
updateStatus(ok) == IF ok THEN hosted ELSE <<>>

\* A hosted model goes from Alive to Dying, or from Dying to Dead.
ModelAdvances(m) ==
    /\ m \in DOMAIN hosted
    /\ hosted[m] # Dead
    /\ hosted' = [hosted EXCEPT ![m] = IF hosted[m] = Alive THEN Dying ELSE Dead]
    /\ UNCHANGED <<destroyModels, runAt, hasHostedModels, modelsStatus, runErr,
                   accepted, destroyed, waited>>
    /\ UNCHANGED <<storeVars, actorVars, ghostVars, skewVars>>

\* Run, the head of the loop: api.DestroyController(c.destroyModels) and the
\* sorting of its error.
DestroyController ==
    /\ runAt = "DestroyController"
    /\ \E err \in DestroyControllerErrors :
         /\ accepted' = (accepted \/ err = "nil")
         /\ IF err # "nil" /\ ~IsCodeHasHostedModels(err)
              THEN /\ hasHostedModels' = FALSE
                   /\ runAt' = "returned"
                   /\ runErr' = ensureUserFriendlyErrorLog(err)
              ELSE /\ hasHostedModels' = IsCodeHasHostedModels(err)
                   /\ runAt' = "updateStatus"
                   /\ runErr' = runErr
    /\ UNCHANGED <<destroyModels, modelsStatus, hosted, destroyed, waited>>
    /\ UNCHANGED <<storeVars, actorVars, ghostVars, skewVars>>

\* UpdateStatus without the check for live hosted models.
UpdateStatusUnchecked ==
    /\ runAt = "updateStatus"
    /\ \E ok \in BOOLEAN :
         LET status == updateStatus(ok) IN
         /\ modelsStatus' = status
         /\ runErr' = runErr
         /\ runAt' = IF ~destroyModels /\ hasHostedModels /\ ~hasUnDeadModels(status)
                       THEN "DestroyController"
                       ELSE "waiting"
    /\ UNCHANGED <<destroyModels, hasHostedModels, hosted, accepted, destroyed, waited>>
    /\ UNCHANGED <<storeVars, actorVars, ghostVars, skewVars>>

\* Run, the status taken after DestroyController and what is made of it
\* without --destroy-all-models: an error for live hosted models, another turn
\* of the loop when hosted models were reported and none is left.
UpdateStatus ==
    /\ runAt = "updateStatus"
    /\ \E ok \in BOOLEAN :
         LET status == updateStatus(ok) IN
         /\ modelsStatus' = status
         /\ IF ~destroyModels /\ checkNoAliveHostedModels(status) # "nil"
              THEN /\ runAt' = "returned"
                   /\ runErr' = checkNoAliveHostedModels(status)
              ELSE /\ runErr' = runErr
                   /\ runAt' = IF ~destroyModels /\ hasHostedModels /\ ~hasUnDeadModels(status)
                                 THEN "DestroyController"
                                 ELSE "waiting"
    /\ UNCHANGED <<destroyModels, hasHostedModels, hosted, accepted, destroyed, waited>>
    /\ UNCHANGED <<storeVars, actorVars, ghostVars, skewVars>>

\* Run, one turn of the waiting loop: some hosted model of the last status is
\* not Dead, and the status is taken again.
Wait ==
    /\ runAt = "waiting"
    /\ hasUnDeadModels(modelsStatus)
    /\ \E ok \in BOOLEAN : modelsStatus' = updateStatus(ok)
    /\ waited' = TRUE
    /\ UNCHANGED <<destroyModels, runAt, hasHostedModels, runErr, hosted, accepted,
                   destroyed>>
    /\ UNCHANGED <<storeVars, actorVars, ghostVars, skewVars>>

\* The waiting loop left as soon as no hosted model of the last status is Alive.
EnvironsDestroyWhenNoneAlive ==
    /\ runAt = "waiting"
    /\ ~hasAliveModels(modelsStatus)
    /\ destroyed' = destroyed + 1
    /\ runAt' = "returned"
    /\ runErr' \in {"nil", "destroying environ failed"}
    /\ UNCHANGED <<destroyModels, hasHostedModels, modelsStatus, hosted, accepted, waited>>
    /\ UNCHANGED <<storeVars, actorVars, ghostVars, skewVars>>

\* Run, the end of the waiting loop: environs.Destroy, whose result Run returns.
EnvironsDestroy ==
    /\ runAt = "waiting"
    /\ ~hasUnDeadModels(modelsStatus)
    /\ destroyed' = destroyed + 1
    /\ runAt' = "returned"
    /\ runErr' \in {"nil", "destroying environ failed"}
    /\ UNCHANGED <<destroyModels, hasHostedModels, modelsStatus, hosted, accepted, waited>>
    /\ UNCHANGED <<storeVars, actorVars, ghostVars, skewVars>>

\* ------------------------------------------------------- the specification

SkewIdle ==
    /\ skew = Skew(ZeroTime, ZeroTime, ZeroTime)
    /\ offset = 0
    /\ sampled = FALSE
    /\ remote = 0
    /\ earliest = 0
    /\ latest = 0
    /\ queried = FALSE

\* No destroy-controller is running.
DestroyIdle ==
    /\ destroyModels = FALSE
    /\ runAt = "idle"
    /\ hasHostedModels = FALSE
    /\ modelsStatus = <<>>
    /\ runErr = ""
    /\ hosted = <<>>
    /\ accepted = FALSE
    /\ destroyed = 0
    /\ waited = FALSE

Init ==
    /\ spaces = <<>>
    /\ providerIDs = <<>>
    /\ subnets \in {[i \in D |-> SubnetDoc("")] : D \in SUBSET SubnetIds}
    /\ handle = <<>>
    /\ pc = [a \in Actors |-> "idle"]
    /\ call = [a \in Actors |-> NoCall]
    /\ failed = [a \in Actors |-> {}]
    /\ fault = [a \in Actors |-> FALSE]
    /\ last = NoResult
    /\ okCount = [n \in ValidNames |-> 0]
    /\ touched = [n \in ValidNames |-> FALSE]
    /\ nCalls = 0
    /\ storeFaults = FALSE
    /\ SkewIdle
    /\ DestroyIdle

Next ==
    \/ \E a \in Actors, name \in Names, providerId \in ProviderIds,
          subs \in SubnetLists, isPublic \in IsPublicChoices :
         AddSpace(a, name, providerId, subs, isPublic)
    \/ \E a \in Actors : AddSpaceCheckSpace(a)
    \/ \E a \in Actors : AddSpaceCheckSubnets(a)
    \/ \E a \in Actors : AddSpaceRefresh(a)
    \/ \E a \in Actors, name \in ValidNames : GetSpace(a, name)
    \/ \E a \in Actors : EnsureDead(a)
    \/ \E a \in Actors : Remove(a)
    \/ \E a \in Actors : Refresh(a)
    \/ \E s \in SubnetIds : AddSubnet(s)

Spec == Init /\ [][Next]_vars

\* AddSpace with lists of two subnets, to tell the order of the re-reads:
\* actors add spaces while the subnets they list come into being.
ManySubnetIds == {"net1", "net2"}

ManySubnetLists ==
    {<<s>> : s \in ManySubnetIds}
    \cup {l \in {<<s, t>> : s \in ManySubnetIds, t \in ManySubnetIds} : l[1] # l[2]}

SubnetInit ==
    /\ spaces = <<>>
    /\ providerIDs = <<>>
    /\ subnets \in {[i \in D |-> SubnetDoc("")] : D \in SUBSET ManySubnetIds}
    /\ handle = <<>>
    /\ pc = [a \in Actors |-> "idle"]
    /\ call = [a \in Actors |-> NoCall]
    /\ failed = [a \in Actors |-> {}]
    /\ fault = [a \in Actors |-> FALSE]
    /\ last = NoResult
    /\ okCount = [n \in ValidNames |-> 0]
    /\ touched = [n \in ValidNames |-> FALSE]
    /\ nCalls = 0
    /\ storeFaults = FALSE
    /\ SkewIdle
    /\ DestroyIdle

SubnetNext ==
    \/ \E a \in Actors, name \in ValidNames, providerId \in ProviderIds,
          subs \in ManySubnetLists, isPublic \in IsPublicChoices :
         AddSpace(a, name, providerId, subs, isPublic)
    \/ \E a \in Actors : AddSpaceCheckSpace(a)
    \/ \E a \in Actors : AddSpaceCheckSubnets(a)
    \/ \E a \in Actors : AddSpaceRefresh(a)
    \/ \E s \in ManySubnetIds : AddSubnet(s)

SubnetSpec == SubnetInit /\ [][SubnetNext]_vars

\* The life cycle taken up where actor 1 has added space sp1, with or without
\* a provider id and no subnet, and its EnsureDead has returned nil: the call
\* budget then reaches a second life of the name.
DeadSpaceInit ==
    \E providerId \in ProviderIds :
      LET doc == SpaceDoc("sp1", Dead, providerId, TRUE) IN
      /\ spaces = [n \in {"sp1"} |-> doc]
      /\ providerIDs = IF providerId = "" THEN <<>>
                        ELSE [k \in {networkEntityGlobalKey("space", providerId)} |->
                                ProviderIdDoc(k)]
      /\ subnets = <<>>
      /\ handle = [a \in {1} |-> doc]
      /\ pc = [a \in Actors |-> "idle"]
      /\ call = [a \in Actors |-> NoCall]
      /\ failed = [a \in Actors |-> {}]
      /\ fault = [a \in Actors |-> FALSE]
      /\ last = Result(1, "EnsureDead", "sp1", "nil", "applied", {}, FALSE)
      /\ okCount = [n \in ValidNames |-> IF n = "sp1" THEN 1 ELSE 0]
      /\ touched = [n \in ValidNames |-> n = "sp1"]
      /\ nCalls = 0
      /\ storeFaults = FALSE
      /\ SkewIdle
      /\ DestroyIdle

DeadSpaceNext ==
    \/ \E a \in Actors, name \in ValidNames, providerId \in ProviderIds,
          isPublic \in IsPublicChoices :
         AddSpace(a, name, providerId, <<>>, isPublic)
    \/ \E a \in Actors : AddSpaceCheckSpace(a)
    \/ \E a \in Actors : AddSpaceRefresh(a)
    \/ \E a \in Actors, name \in ValidNames : GetSpace(a, name)
    \/ \E a \in Actors : EnsureDead(a)
    \/ \E a \in Actors : Remove(a)
    \/ \E a \in Actors : Refresh(a)

DeadSpaceSpec == DeadSpaceInit /\ [][DeadSpaceNext]_vars

\* The same operations against a store that may answer any access with an
\* error of its own (a timeout among them), having applied nothing.
FaultInit ==
    /\ spaces = <<>>
    /\ providerIDs = <<>>
    /\ subnets \in {[i \in D |-> SubnetDoc("")] : D \in SUBSET SubnetIds}
    /\ handle = <<>>
    /\ pc = [a \in Actors |-> "idle"]
    /\ call = [a \in Actors |-> NoCall]
    /\ failed = [a \in Actors |-> {}]
    /\ fault = [a \in Actors |-> FALSE]
    /\ last = NoResult
    /\ okCount = [n \in ValidNames |-> 0]
    /\ touched = [n \in ValidNames |-> FALSE]
    /\ nCalls = 0
    /\ storeFaults = TRUE
    /\ SkewIdle
    /\ DestroyIdle

\* One name is enough to meet every error path of every operation.
FaultNames == {"sp1"}

FaultNext ==
    \/ \E a \in Actors, name \in FaultNames, providerId \in ProviderIds,
          subs \in SubnetLists, isPublic \in IsPublicChoices :
         AddSpace(a, name, providerId, subs, isPublic)
    \/ \E a \in Actors : AddSpaceCheckSpace(a)
    \/ \E a \in Actors : AddSpaceCheckSubnets(a)
    \/ \E a \in Actors : AddSpaceRefresh(a)
    \/ \E a \in Actors, name \in FaultNames : GetSpace(a, name)
    \/ \E a \in Actors : EnsureDead(a)
    \/ \E a \in Actors : Remove(a)
    \/ \E a \in Actors : Refresh(a)
    \/ \E s \in SubnetIds : AddSubnet(s)

FaultSpec == FaultInit /\ [][FaultNext]_vars

\* AddSpace taken up where actor 1 has added space sp1 listing subnet net1,
\* while subnet net2 is in no space or does not exist yet.
OwnedSubnetInit ==
    \E providerId \in ProviderIds, others \in SUBSET {"net2"} :
      LET doc == SpaceDoc("sp1", Alive, providerId, TRUE) IN
      /\ spaces = [n \in {"sp1"} |-> doc]
      /\ providerIDs = IF providerId = "" THEN <<>>
                        ELSE [k \in {networkEntityGlobalKey("space", providerId)} |->
                                ProviderIdDoc(k)]
      /\ subnets = [i \in {"net1"} \cup others |->
                      IF i = "net1" THEN SubnetDoc("sp1") ELSE SubnetDoc("")]
      /\ handle = [a \in {1} |-> doc]
      /\ pc = [a \in Actors |-> "idle"]
      /\ call = [a \in Actors |-> NoCall]
      /\ failed = [a \in Actors |-> {}]
      /\ fault = [a \in Actors |-> FALSE]
      /\ last = Result(1, "AddSpace", "sp1", "nil", "", {}, FALSE)
      /\ okCount = [n \in ValidNames |-> IF n = "sp1" THEN 1 ELSE 0]
      /\ touched = [n \in ValidNames |-> FALSE]
      /\ nCalls = 0
      /\ storeFaults = FALSE
      /\ SkewIdle
      /\ DestroyIdle

OwnedSubnetSpec == OwnedSubnetInit /\ [][SubnetNext]_vars

\* The skew arithmetic on its own: the store stays as it starts.
SkewNext ==
    \/ \E ra \in LocalTimes, t \in LocalTimes, rb \in LocalTimes, off \in Offsets :
         Sample(ra, t, rb, off)
    \/ \E lw \in LocalTimes, ra \in LocalTimes, rb \in LocalTimes :
         SetRecord(lw, ra, rb)
    \/ \E r \in RemoteTimes : Query(r)

SkewSpec == Init /\ [][SkewNext]_vars

\* destroy-controller on its own: Run has reached its loop, with or without
\* --destroy-all-models, on a controller with up to two hosted models.
DestroyInit ==
    /\ spaces = <<>>
    /\ providerIDs = <<>>
    /\ subnets = <<>>
    /\ handle = <<>>
    /\ pc = [a \in Actors |-> "idle"]
    /\ call = [a \in Actors |-> NoCall]
    /\ failed = [a \in Actors |-> {}]
    /\ fault = [a \in Actors |-> FALSE]
    /\ last = NoResult
    /\ okCount = [n \in ValidNames |-> 0]
    /\ touched = [n \in ValidNames |-> FALSE]
    /\ nCalls = 0
    /\ storeFaults = FALSE
    /\ SkewIdle
    /\ destroyModels \in BOOLEAN
    /\ runAt = "DestroyController"
    /\ hasHostedModels = FALSE
    /\ modelsStatus = <<>>
    /\ runErr = ""
    /\ hosted \in UNION {[ms -> {Alive, Dying, Dead}] : ms \in SUBSET HostedModels}
    /\ accepted = FALSE
    /\ destroyed = 0
    /\ waited = FALSE

DestroyNext ==
    \/ DestroyController
    \/ UpdateStatus
    \/ Wait
    \/ EnvironsDestroy
    \/ \E m \in HostedModels : ModelAdvances(m)

DestroySpec == DestroyInit /\ [][DestroyNext]_vars

\* ---------------------------------------------------------------- claims

Key(providerId) == networkEntityGlobalKey("space", providerId)

Stored(n) == n \in DOMAIN spaces

\* A returned AddSpace for a valid name whose listed subnets all existed and
\* whose store accesses all answered.
CleanAdd(r) ==
    /\ r.op = "AddSpace"
    /\ r.name \in ValidNames
    /\ ~r.fault
    /\ subnetsC \notin r.failed

\* The provider-id assertion alone aborted the transaction.
ProviderIdAlone(r) == providerIDsC \in r.failed /\ spacesC \notin r.failed

\* Another actor's AddSpace for the same name is under way.
Concurrent(r) ==
    \E b \in Actors : b # r.actor /\ pc[b] # "idle" /\ call[b].name = r.name

TheoremC2 ==
    [][\A n \in ValidNames :
         (n \in DOMAIN spaces /\ n \in DOMAIN spaces') =>
             LifeRank(spaces'[n].life) >= LifeRank(spaces[n].life)]_vars

\* A Dead space on which another actor still holds a handle that says Alive.
WitnessC2 ==
    \E a \in DOMAIN handle :
        /\ Stored(handle[a].name)
        /\ spaces[handle[a].name].life = Dead
        /\ handle[a].life = Alive
        /\ touched[handle[a].name]

\* C3: a space document leaves the store only from life Dead, and a Remove on
\* a space whose stored life is not Dead returns an error and leaves the
\* spaces and the provider-id index as they were.
TheoremC3 ==
    [][/\ \A n \in ValidNames :
            (n \in DOMAIN spaces /\ n \notin DOMAIN spaces') => spaces[n].life = Dead
       /\ \A a \in Actors :
            (Remove(a) /\ Stored(handle[a].name) /\ spaces[handle[a].name].life # Dead) =>
                /\ last'.op = "Remove"
                /\ last'.err # "nil"
                /\ spaces' = spaces
                /\ providerIDs' = providerIDs]_vars

\* A stale handle that says Dead asked to remove a space that is Alive again,
\* and the transaction's assertion refused.
WitnessC3 ==
    /\ last.op = "Remove"
    /\ last.err = "notFoundOrNotDead"
    /\ Stored(last.name)
    /\ spaces[last.name].life = Alive
    /\ handle[last.actor].life = Dead

\* C4: the transaction of AddSpace inserts the space, names it in every listed
\* subnet and records its provider id, or changes nothing in the store; and a
\* subnet carries a space's name only if an AddSpace for that name succeeded.
TheoremC4 ==
    [][/\ \A a \in Actors, name \in Names, providerId \in ProviderIds,
             subs \in SubnetLists, isPublic \in IsPublicChoices :
            (nCalls' # nCalls /\ AddSpace(a, name, providerId, subs, isPublic)) =>
                \/ /\ pc'[a] = "idle"
                   /\ last' = Result(a, "AddSpace", name, "nil", "", {}, FALSE)
                   /\ ~Stored(name)
                   /\ name \in DOMAIN spaces'
                   /\ spaces'[name] = SpaceDoc(name, Alive, providerId, isPublic)
                   /\ \A i \in 1 .. Len(subs) :
                        /\ subs[i] \in DOMAIN subnets'
                        /\ subnets'[subs[i]].spaceName = name
                   /\ providerId # "" => Key(providerId) \in DOMAIN providerIDs'
                \/ /\ pc'[a] # "idle" \/ last'.err # "nil"
                   /\ UNCHANGED storeVars
       /\ \A a \in Actors :
            (pc[a] # "idle" /\ pc'[a] # pc[a]) => UNCHANGED storeVars
       /\ \A s \in DOMAIN subnets' :
            subnets'[s].spaceName # "" => okCount'[subnets'[s].spaceName] >= 1]_vars

\* An AddSpace with a provider id and a subnet succeeded.
WitnessC4 ==
    /\ last.op = "AddSpace"
    /\ last.err = "nil"
    /\ Stored(last.name)
    /\ spaces[last.name].providerId = "pid1"
    /\ Key("pid1") \in DOMAIN providerIDs
    /\ "net1" \in DOMAIN subnets
    /\ subnets["net1"].spaceName = last.name

\* C5, as stated: an EnsureDead through a handle on a space that another
\* handle's EnsureDead has just made Dead returns nil.
CounterexampleC5 ==
    (/\ last.op = "EnsureDead"
     /\ Stored(last.name)
     /\ spaces[last.name].life = Dead
     /\ okCount[last.name] = 1
     /\ \E b \in DOMAIN handle :
          b # last.actor /\ handle[b].name = last.name /\ handle[b].life = Dead)
    => last.err = "nil"

\* C6: once an EnsureDead has returned nil, a further EnsureDead on the
\* handle, with no operation returning in between, returns nil and changes
\* neither the store nor the handle; the stored life, Dead after an EnsureDead
\* whose transaction was applied, stays Dead.
TheoremC6 ==
    [][\A a \in Actors :
         (last.actor = a /\ last.op = "EnsureDead" /\ last.err = "nil") =>
             /\ last.arg = "applied" =>
                  (Stored(last.name) /\ spaces[last.name].life = Dead)
             /\ EnsureDead(a) =>
                  /\ last' = Result(a, "EnsureDead", last.name, "nil", "cached", {}, FALSE)
                  /\ UNCHANGED <<storeVars, handle>>
                  /\ (Stored(last.name) /\ spaces[last.name].life = Dead) =>
                       spaces'[last.name].life = Dead]_vars

\* A second EnsureDead on a handle whose first one was applied.
WitnessC6 ==
    /\ last.op = "EnsureDead"
    /\ last.err = "nil"
    /\ last.arg = "cached"
    /\ nCalls = 3
    /\ okCount[last.name] = 1
    /\ handle = (last.actor :> SpaceDoc(last.name, Dead, "", TRUE))
    /\ Stored(last.name)
    /\ spaces[last.name].life = Dead

\* C7: an AddSpace for a valid name not in the store, with every listed
\* subnet there and a provider id that is empty or not in the index, returns
\* the space; a Refresh of it right after succeeds and says Alive.
TheoremC7 ==
    [][/\ \A a \in Actors, name \in ValidNames, providerId \in ProviderIds,
             subs \in SubnetLists, isPublic \in IsPublicChoices :
            (/\ nCalls' # nCalls
             /\ ~Stored(name)
             /\ AddSpace(a, name, providerId, subs, isPublic)
             /\ \A i \in 1 .. Len(subs) : subs[i] \in DOMAIN subnets
             /\ providerId = "" \/ Key(providerId) \notin DOMAIN providerIDs) =>
                /\ pc'[a] = "idle"
                /\ last' = Result(a, "AddSpace", name, "nil", "", {}, FALSE)
                /\ handle'[a] = SpaceDoc(name, Alive, providerId, isPublic)
       /\ \A a \in Actors :
            (last.actor = a /\ last.op = "AddSpace" /\ last.err = "nil" /\ Refresh(a)) =>
                /\ last' = Result(a, "Refresh", last.name, "nil", "", {}, FALSE)
                /\ handle'[a].life = Alive]_vars

\* The first two operations of a behaviour: an AddSpace with a provider id and
\* a subnet, and the Refresh of the space it returned.
WitnessC7 ==
    /\ nCalls = 2
    /\ last.op = "Refresh"
    /\ last.err = "nil"
    /\ last.actor \in DOMAIN handle
    /\ handle[last.actor].life = Alive
    /\ handle[last.actor].providerId = "pid1"
    /\ "net1" \in DOMAIN subnets
    /\ subnets["net1"].spaceName = last.name

\* C8: the first re-read after an aborted AddSpace transaction is that of the
\* space, and when it finds the space while a listed subnet is missing the
\* call returns AlreadyExists.
TheoremC8 ==
    [][\A a \in Actors :
         /\ (pc[a] = "idle" /\ pc'[a] # "idle") => pc'[a] = "checkSpace"
         /\ (/\ pc[a] = "checkSpace"
             /\ pc'[a] # pc[a]
             /\ Stored(call[a].name)
             /\ \E i \in 1 .. Len(call[a].subnets) :
                  call[a].subnets[i] \notin DOMAIN subnets) =>
                /\ pc'[a] = "idle"
                /\ last' = Result(a, "AddSpace", call[a].name, "AlreadyExists", "",
                                  failed[a], fault[a])]_vars

\* An AddSpace that met both a space already there and a missing subnet
\* returned AlreadyExists.
WitnessC8 ==
    /\ last.op = "AddSpace"
    /\ last.err = "AlreadyExists"
    /\ {spacesC, subnetsC} \subseteq last.failed
    /\ "net1" \notin DOMAIN subnets

\* The local instant at which the remote clock reads r.
LocalInstant(r) == r - offset

\* C9, as stated: for a record that is a sample and not all zero, the local
\* instant at which the remote clock reads the timestamp lies between
\* Earliest and Latest, which are as far apart as ReadAfter and ReadBefore.
CounterexampleC9 ==
    (sampled /\ queried /\ ~isZero(skew)) =>
        /\ earliest <= LocalInstant(remote)
        /\ LocalInstant(remote) <= latest
        /\ earliest <= latest
        /\ latest - earliest = skew.ReadBefore - skew.ReadAfter

\* A sample was asked about a timestamp further after its LastWrite than a
\* Duration holds, and Latest fell before the instant the remote clock reads it.
WitnessC9 ==
    /\ sampled
    /\ queried
    /\ ~isZero(skew)
    /\ skew.ReadAfter < skew.ReadBefore
    /\ remote - skew.LastWrite > MaxDuration
    /\ latest = Latest(skew, remote)
    /\ latest < LocalInstant(remote)

\* C10, as stated: Earliest and Latest are ReadAfter and ReadBefore moved by
\* the timestamp's distance from LastWrite, whichever its sign, and for the
\* zero record both are the timestamp.
CounterexampleC10 ==
    queried =>
        IF isZero(skew)
        THEN earliest = remote /\ latest = remote
        ELSE /\ earliest = skew.ReadAfter + (remote - skew.LastWrite)
             /\ latest = skew.ReadBefore + (remote - skew.LastWrite)

\* A record was asked about a timestamp further before its LastWrite than a
\* Duration holds.
WitnessC10 ==
    /\ queried
    /\ ~isZero(skew)
    /\ remote - skew.LastWrite < MinDuration
    /\ earliest = Earliest(skew, remote)
    /\ earliest = skew.ReadAfter + MinDuration
    /\ latest = skew.ReadBefore + MinDuration

\* C11, as stated: of two timestamps handed one after the other to Earliest
\* and Latest of one record, the later gets the later bounds.
CounterexampleC11 ==
    [][(queried /\ queried' /\ skew' = skew /\ remote < remote') =>
          (earliest < earliest' /\ latest < latest')]_vars

\* A record was asked about a timestamp so far after its LastWrite that the
\* timestamp one unit earlier gets the same bounds.
WitnessC11 ==
    /\ queried
    /\ ~isZero(skew)
    /\ (remote - 1) - skew.LastWrite >= MaxDuration
    /\ earliest = Earliest(skew, remote - 1)
    /\ latest = Latest(skew, remote - 1)

\* C12: a Refresh that the store answers returns NotFound exactly when no
\* document is stored under the handle's name, and then leaves the handle as
\* it was; when a document is stored, Dead or not, it returns nil and the
\* handle holds the stored document.  A successful Remove leaves no document
\* under the name, and only a successful AddSpace puts one there again.
TheoremC12 ==
    [][/\ \A a \in Actors :
            (nCalls' # nCalls /\ Refresh(a)) =>
                /\ last'.op = "Refresh" /\ last'.actor = a
                /\ UNCHANGED storeVars
                /\ ~last'.fault =>
                      /\ (last'.err = "NotFound") <=> ~Stored(handle[a].name)
                      /\ (last'.err = "nil") <=> Stored(handle[a].name)
                /\ last'.err = "NotFound" =>
                      (~Stored(handle[a].name) /\ handle' = handle)
                /\ last'.err = "nil" =>
                      /\ Stored(handle[a].name)
                      /\ handle'[a] = spaces[handle[a].name]
                      /\ handle'[a].name = handle[a].name
       /\ \A a \in Actors :
            (nCalls' # nCalls /\ Remove(a) /\ last'.err = "nil") =>
                handle[a].name \notin DOMAIN spaces'
       /\ \A n \in ValidNames :
            (~Stored(n) /\ n \in DOMAIN spaces') =>
                (last'.op = "AddSpace" /\ last'.err = "nil" /\ last'.name = n)]_vars

\* A Refresh through the handle of a removed space returned NotFound, and the
\* handle still says Dead.
WitnessC12 ==
    /\ last.op = "Refresh"
    /\ last.err = "NotFound"
    /\ ~Stored(last.name)
    /\ touched[last.name]
    /\ last.actor \in DOMAIN handle
    /\ handle[last.actor].name = last.name
    /\ handle[last.actor].life = Dead

\* C13, as stated: an EnsureDead through a handle on a space whose document
\* is no longer in the store returns errNotAlive and leaves the store as it is.
CounterexampleC13 ==
    [][\A a \in Actors :
         (nCalls' # nCalls /\ EnsureDead(a) /\ ~Stored(handle[a].name)) =>
             /\ last'.op = "EnsureDead"
             /\ last'.err = "errNotAlive"
             /\ UNCHANGED storeVars]_vars

\* An EnsureDead through a handle that says Dead returned nil for a space that
\* had been removed.
WitnessC13 ==
    /\ last.op = "EnsureDead"
    /\ last.err = "nil"
    /\ last.arg = "cached"
    /\ touched[last.name]
    /\ ~Stored(last.name)

\* A space of this name was removed and none is stored now.
Removed(n) == touched[n] /\ ~Stored(n)

\* C14, as stated: once a space has been removed, no step makes a document of
\* its name resolvable again.
CounterexampleC14 ==
    [][\A n \in ValidNames : Removed(n) => n \notin DOMAIN spaces']_vars

\* C14, as amended: once a space has been removed, lookup by name and Refresh
\* return NotFound, and only an AddSpace for the name that succeeds, starting
\* a new Alive document, makes the name resolvable again.
TheoremC14 ==
    [][\A n \in ValidNames : Removed(n) =>
         /\ n \in DOMAIN spaces' =>
               /\ last'.op = "AddSpace" /\ last'.err = "nil" /\ last'.name = n
               /\ spaces'[n].life = Alive
         /\ \A a \in Actors :
               (nCalls' # nCalls /\ a \in DOMAIN handle /\ handle[a].name = n
                                /\ Refresh(a)) =>
                   (last'.err = "NotFound" /\ ~Stored(n) /\ n \notin DOMAIN spaces')
         /\ \A a \in Actors :
               (nCalls' # nCalls /\ GetSpace(a, n)) =>
                   (last'.err = "NotFound" /\ n \notin DOMAIN spaces')]_vars

\* A name whose space was removed is stored again, Alive, by a later AddSpace,
\* while a handle on the removed space still says Dead.
WitnessC14 ==
    /\ last.op = "AddSpace"
    /\ last.err = "nil"
    /\ Stored(last.name)
    /\ spaces[last.name].life = Alive
    /\ touched[last.name]
    /\ \E b \in DOMAIN handle :
          b # last.actor /\ handle[b].name = last.name /\ handle[b].life = Dead

\* The first subnet of a list, in the order of the list, that is not stored.
FirstMissing(subs) ==
    subs[CHOOSE i \in 1 .. Len(subs) :
           /\ subs[i] \notin DOMAIN subnets
           /\ \A j \in 1 .. i - 1 : subs[j] \in DOMAIN subnets]

AnyMissing(subs) == \E i \in 1 .. Len(subs) : subs[i] \notin DOMAIN subnets

\* C15: after an aborted AddSpace transaction whose re-read finds no space
\* of the name, the subnets are re-read in the order of the argument; the read
\* that finds one missing ends the call with NotFound for that subnet, which
\* is the first missing one of the list; the call changes nothing in the store.
TheoremC15 ==
    [][\A a \in Actors :
         /\ (pc[a] = "checkSpace" /\ pc'[a] # pc[a] /\ ~Stored(call[a].name)) =>
                (pc'[a] = "checkSubnets" /\ call'[a].idx = 1)
         /\ (pc[a] = "checkSubnets" /\ (pc'[a] # pc[a] \/ call'[a] # call[a])) =>
                /\ UNCHANGED storeVars
                /\ \A j \in 1 .. call[a].idx - 1 : call[a].subnets[j] \in DOMAIN subnets
                /\ IF call[a].subnets[call[a].idx] \notin DOMAIN subnets
                   THEN /\ pc'[a] = "idle"
                        /\ AnyMissing(call[a].subnets)
                        /\ last' = Result(a, "AddSpace", call[a].name, "SubnetNotFound",
                                          FirstMissing(call[a].subnets), failed[a], fault[a])
                   ELSE /\ pc'[a] # "idle"
                        /\ AnyMissing(call[a].subnets) =>
                              (pc'[a] = "checkSubnets" /\ call'[a].idx = call[a].idx + 1)
         /\ (pc[a] = "idle" /\ pc'[a] # "idle") => UNCHANGED storeVars]_vars

\* An AddSpace listing two subnets, the first stored and the second not,
\* returned NotFound for the second.
WitnessC15 ==
    /\ last.op = "AddSpace"
    /\ last.err = "SubnetNotFound"
    /\ last.arg = "net2"
    /\ "net1" \in DOMAIN subnets
    /\ "net2" \notin DOMAIN subnets
    /\ ~Stored(last.name)
    /\ \A s \in DOMAIN subnets : subnets[s].spaceName = ""

\* C16, as stated: an AddSpace returns "ProviderId not unique" only if its
\* provider id is not empty and the provider-id assertion was among those
\* that failed when its transaction was applied.
CounterexampleC16 ==
    (last.op = "AddSpace" /\ last.err = "ProviderIdNotUnique") =>
        (last.arg # "" /\ providerIDsC \in last.failed)

\* An AddSpace with no provider id, whose transaction was aborted by a missing
\* subnet alone, returned "ProviderId not unique".
WitnessC16 ==
    /\ last.op = "AddSpace"
    /\ last.err = "ProviderIdNotUnique"
    /\ last.arg = ""
    /\ last.failed = {subnetsC}
    /\ providerIDs = <<>>

\* The provider ids of the stored spaces that have one.
StoredProviderIds == {spaces[n].providerId : n \in DOMAIN spaces} \ {""}

\* C17, as stated: the keys of the provider-id index are those of the
\* provider ids of the stored spaces, and no two stored spaces have the same
\* provider id.
CounterexampleC17 ==
    /\ DOMAIN providerIDs = {Key(p) : p \in StoredProviderIds}
    /\ \A n1 \in DOMAIN spaces, n2 \in DOMAIN spaces :
          (n1 # n2 /\ spaces[n1].providerId # "") =>
              spaces[n1].providerId # spaces[n2].providerId

\* A Remove through a handle on an earlier space of the name, which had no
\* provider id, took away the later space and left its provider-id key.
WitnessC17 ==
    /\ last.op = "Remove"
    /\ last.err = "nil"
    /\ handle[last.actor].providerId = ""
    /\ ~Stored(last.name)
    /\ spaces = <<>>
    /\ Key("pid1") \in DOMAIN providerIDs

\* C18, as stated: the document stored under the name of a handle whose
\* cached life is Dead is absent or Dead.
CounterexampleC18 ==
    \A a \in DOMAIN handle :
        handle[a].life = Dead =>
            (~Stored(handle[a].name) \/ spaces[handle[a].name].life = Dead)

\* An EnsureDead returned nil from the cached life of its handle while the
\* space stored under the handle's name is Alive.
WitnessC18 ==
    /\ last.op = "EnsureDead"
    /\ last.err = "nil"
    /\ last.arg = "cached"
    /\ last.actor \in DOMAIN handle
    /\ handle[last.actor].life = Dead
    /\ Stored(last.name)
    /\ spaces[last.name].life = Alive

\* C19: an EnsureDead turns the cached life of its handle to Dead only in
\* the step that applies its transaction; when the transaction is aborted or
\* the store answers with an error it returns an error and leaves store and
\* handle as they were.  A Remove that returns an error, and an AddSpace that
\* does not return a space, leave the store as it was.
TheoremC19 ==
    [][/\ \A a \in Actors :
            (nCalls' # nCalls /\ EnsureDead(a)) =>
                /\ last'.op = "EnsureDead" /\ last'.actor = a
                /\ handle'[a].life # handle[a].life =>
                      /\ last'.err = "nil" /\ last'.arg = "applied"
                      /\ handle'[a].life = Dead
                      /\ Stored(handle[a].name)
                      /\ spaces[handle[a].name].life = Alive
                      /\ spaces'[handle[a].name].life = Dead
                /\ (last'.fault \/ last'.failed # {}) => last'.err # "nil"
                /\ last'.fault => last'.err = "storeError"
                /\ last'.err # "nil" => UNCHANGED <<storeVars, handle>>
       /\ \A a \in Actors :
            (nCalls' # nCalls /\ Remove(a)) =>
                /\ (last'.fault \/ last'.failed # {}) => last'.err # "nil"
                /\ last'.err # "nil" => UNCHANGED <<storeVars, handle>>
       /\ \A a \in Actors, name \in Names, providerId \in ProviderIds,
             subs \in SubnetLists, isPublic \in IsPublicChoices :
            (nCalls' # nCalls /\ AddSpace(a, name, providerId, subs, isPublic)) =>
                \/ pc'[a] = "idle" /\ last'.err = "nil" /\ a \in DOMAIN handle'
                \/ UNCHANGED <<storeVars, handle>>
       /\ \A a \in Actors :
            (pc[a] # "idle" /\ (pc'[a] # pc[a] \/ call'[a] # call[a])) =>
                /\ UNCHANGED <<storeVars, handle>>
                /\ pc'[a] = "idle" => (last'.op = "AddSpace" /\ last'.err # "nil")]_vars

\* The store answered the transaction of an EnsureDead with an error of its
\* own: the call returned it, and space and handle are Alive as before.
WitnessC19 ==
    /\ last.op = "EnsureDead"
    /\ last.err = "storeError"
    /\ last.fault
    /\ last.actor \in DOMAIN handle
    /\ handle[last.actor].life = Alive
    /\ Stored(last.name)
    /\ spaces[last.name].life = Alive

\* C20: an EnsureDead that returns nil changes at most the life of the one
\* space document under the handle's name, to Dead: that document's name,
\* provider id and isPublic, every other space document, the subnets and the
\* provider-id index stay.  No step changes the name of a stored space
\* document, which is the key it is stored under, and a Refresh leaves the
\* handle on the name it had.
TheoremC20 ==
    [][/\ \A a \in Actors :
            (nCalls' # nCalls /\ EnsureDead(a) /\ last'.err = "nil") =>
                /\ last'.arg = "applied" =>
                      /\ Stored(handle[a].name)
                      /\ spaces' = [spaces EXCEPT ![handle[a].name].life = Dead]
                /\ last'.arg = "cached" => spaces' = spaces
                /\ DOMAIN spaces' = DOMAIN spaces
                /\ \A m \in DOMAIN spaces :
                      /\ spaces'[m].name = spaces[m].name
                      /\ spaces'[m].providerId = spaces[m].providerId
                      /\ spaces'[m].isPublic = spaces[m].isPublic
                      /\ m # handle[a].name => spaces'[m] = spaces[m]
                /\ subnets' = subnets
                /\ providerIDs' = providerIDs
                /\ handle'[a].name = handle[a].name
       /\ \A n \in DOMAIN spaces \cap DOMAIN spaces' :
            spaces[n].name = n /\ spaces'[n].name = n
       /\ \A a \in Actors :
            (nCalls' # nCalls /\ Refresh(a)) =>
                (a \in DOMAIN handle' /\ handle'[a].name = handle[a].name)]_vars

\* An EnsureDead was applied to a space with a provider id while another
\* space is stored: the one is Dead with its provider id and key, the other
\* Alive.
WitnessC20 ==
    /\ last.op = "EnsureDead"
    /\ last.err = "nil"
    /\ last.arg = "applied"
    /\ Stored(last.name)
    /\ spaces[last.name] = SpaceDoc(last.name, Dead, "pid1", TRUE)
    /\ Key("pid1") \in DOMAIN providerIDs
    /\ \E m \in DOMAIN spaces : m # last.name /\ spaces[m].life = Alive

\* The subnets a list names.
Listed(subs) == {subs[i] : i \in 1 .. Len(subs)}

\* C21: an AddSpace for a name not in the store, whose listed subnets all
\* exist and whose provider id is free, succeeds whatever space the subnets
\* are in; after it the listed subnets are subnets of the new space and of no
\* other, and the spaces that were stored are as they were.
TheoremC21 ==
    [][\A a \in Actors, name \in ValidNames, providerId \in ProviderIds,
         subs \in ManySubnetLists, isPublic \in IsPublicChoices :
         (/\ nCalls' # nCalls
          /\ ~Stored(name)
          /\ AddSpace(a, name, providerId, subs, isPublic)
          /\ Listed(subs) \subseteq DOMAIN subnets
          /\ providerId = "" \/ Key(providerId) \notin DOMAIN providerIDs) =>
             /\ last' = Result(a, "AddSpace", name, "nil", "", {}, FALSE)
             /\ name \in DOMAIN spaces'
             /\ DOMAIN subnets' = DOMAIN subnets
             /\ Subnets(subnets', name) = Subnets(subnets, name) \cup Listed(subs)
             /\ \A m \in (ValidNames \cup {""}) \ {name} :
                   Subnets(subnets', m) = Subnets(subnets, m) \ Listed(subs)
             /\ \A m \in DOMAIN spaces : m \in DOMAIN spaces' /\ spaces'[m] = spaces[m]]_vars

\* The first operation after space sp1 was added with subnet net1: an
\* AddSpace for sp2 that lists net1 has succeeded; net1 is a subnet of sp2 and
\* sp1, still stored, has none.
WitnessC21 ==
    /\ nCalls = 1
    /\ last.op = "AddSpace"
    /\ last.err = "nil"
    /\ last.name = "sp2"
    /\ Stored("sp1")
    /\ Stored("sp2")
    /\ "net1" \in Subnets(subnets, "sp2")
    /\ Subnets(subnets, "sp1") = {}

\* What belongs to Run itself, the controller's hosted models apart.
runVars == <<runAt, hasHostedModels, modelsStatus, runErr, accepted, destroyed, waited>>

\* C22: Run calls environs.Destroy at most once, and only from its waiting
\* loop when the status polled last shows no hosted model that is not Dead;
\* as long as the status polled last in the waiting loop shows such a model,
\* the only thing Run does is poll the status again; a status polled after
\* DestroyController that shows such a model sends Run into the waiting loop
\* or, without --destroy-all-models, to an error return; once Run has
\* returned it does nothing more.
TheoremC22 ==
    [][/\ destroyed' <= 1
       /\ destroyed' # destroyed =>
            /\ runAt = "waiting"
            /\ ~hasUnDeadModels(modelsStatus)
            /\ modelsStatus' = modelsStatus
            /\ runAt' = "returned"
       /\ (runAt = "waiting" /\ hasUnDeadModels(modelsStatus) /\ runVars' # runVars) =>
            /\ \E ok \in BOOLEAN : modelsStatus' = updateStatus(ok)
            /\ waited'
            /\ UNCHANGED <<runAt, runErr, destroyed>>
       /\ (runAt = "updateStatus" /\ runVars' # runVars /\ hasUnDeadModels(modelsStatus')) =>
            /\ destroyed' = destroyed
            /\ \/ runAt' = "waiting"
               \/ ~destroyModels /\ runAt' = "returned" /\ runErr' = "live hosted models"
       /\ runAt = "returned" => UNCHANGED runVars]_vars

\* Run has returned nil from environs.Destroy, called once, after its waiting
\* loop polled the status until the hosted models it shows were all Dead.
WitnessC22 ==
    /\ runAt = "returned"
    /\ runErr = "nil"
    /\ destroyed = 1
    /\ waited
    /\ DOMAIN modelsStatus # {}
    /\ ~hasUnDeadModels(modelsStatus)

\* C23: without --destroy-all-models, when the status polled after a
\* DestroyController call shows an Alive hosted model, Run returns the error for
\* live hosted models there and then, having called environs.Destroy never;
\* and a Run that has returned that error stays returned and calls it never.
TheoremC23 ==
    [][~destroyModels =>
         /\ (runAt = "updateStatus" /\ runAt' # runAt /\ hasAliveModels(modelsStatus')) =>
              /\ runAt' = "returned"
              /\ runErr' = "live hosted models"
              /\ destroyed' = 0
         /\ runErr = "live hosted models" =>
              /\ destroyed = 0
              /\ UNCHANGED runVars]_vars

\* Without --destroy-all-models DestroyController reported hosted models, the
\* status polled then showed an Alive one, and Run has returned the error
\* without a call of environs.Destroy.
WitnessC23 ==
    /\ ~destroyModels
    /\ hasHostedModels
    /\ hasAliveModels(modelsStatus)
    /\ runAt = "returned"
    /\ runErr = "live hosted models"
    /\ destroyed = 0

\* C24: Run calls environs.Destroy only when some DestroyController call of the
\* execution has returned nil and the latest one did not fail with the
\* has-hosted-models code.
CounterexampleC24 ==
    [][destroyed' # destroyed => accepted /\ ~hasHostedModels]_vars

\* Without --destroy-all-models Run has called environs.Destroy although its
\* only DestroyController call failed with the has-hosted-models code: the
\* hosted models the status showed were Dying, and Run waited until they were
\* Dead.
WitnessC24 ==
    /\ ~destroyModels
    /\ runAt = "returned"
    /\ destroyed = 1
    /\ ~accepted
    /\ hasHostedModels
    /\ waited
    /\ DOMAIN modelsStatus # {}

====
